---- MODULE Spec2Model ----
(***************************************************************************)
(* A model of evolve_text.py: the memoized distance functions, the Message *)
(* individual, the mutation and crossover operators and the generational   *)
(* loop that drives them.                                                  *)
(*                                                                         *)
(* A Python string is a sequence of characters; a character is a TLA+      *)
(* string of length one.  A Message is a Python list whose items are       *)
(* strings of length one, so an item is a one-element sequence.            *)
(***************************************************************************)
EXTENDS Integers, Sequences, FiniteSets, TLC

VARIABLES known,      \* the module-level memo table of the distance functions
          pop,        \* the individuals: each a record [text, fitness]
          last,       \* the last call: its name, arguments, result, exception
          work,       \* budget spent: the weight of the distance calls made,
                      \* or (loop model) the variation applied
          goal,       \* goal_text of the run
          pc,         \* position of evolve_string in the generational loop
          gen,        \* generation counter of the loop
          idx,        \* loop index inside the variation step
          offspring   \* the offspring list of the current generation

vars == <<known, pop, last, work, goal, pc, gen, idx, offspring>>

-----------------------------------------------------------------------------
(* Bounds of the model *)

\* longest string handed to the distance functions
MaxStr == 2
\* total size of the distance calls explored from the initial memo table
\* (outside the loop model): a call on (a, b) weighs Len(a) + Len(b) + 1,
\* its greatest recursion depth
MaxWork == 8
\* longest Message of the operator model (insertion is capped there)
MaxLen == 3
\* individuals of the loop model's population (the code: n = 300)
MaxPop == 2
\* longest individual the loop model starts from (the code: max_length = 30)
MaxInitLen == 4
\* generations run by the loop model (the code: ngen = 500)
MaxGen == 2
\* variation applied in one run of the loop model: a crossover counts 1 and
\* a mutation, which has many more outcomes, counts 2; once the budget is
\* spent the remaining draws of the run are followed only where the operator
\* does not fire
MaxVaried == 3

-----------------------------------------------------------------------------
(* Global variables of the program *)

VALID_CHARS ==
  << "A", "B", "C", "D", "E", "F", "G", "H", "I", "J", "K", "L", "M",
     "N", "O", "P", "Q", "R", "S", "T", "U", "V", "W", "X", "Y", "Z", " " >>

\* The characters the model's inputs and sampled random draws range over:
\* the first letter and the last symbol of VALID_CHARS.
SampleChars == {VALID_CHARS[1], VALID_CHARS[Len(VALID_CHARS)]}

\* ord() of a character of the alphabet (and of the key separator)
Ord(c) ==
  IF c = " " THEN 32
  ELSE IF c = "," THEN 44
  ELSE 64 + (CHOOSE i \in 1..26 : VALID_CHARS[i] = c)

Abs(x) == IF x < 0 THEN 0 - x ELSE x

Min(x, y) == IF x < y THEN x ELSE y

\* all strings over S of length at most n
StringsUpTo(S, n) == UNION {[1..k -> S] : k \in 0..n}

\* sum of ord(char) over the characters of a string
RECURSIVE OrdSum(_)
OrdSum(s) == IF s = <<>> THEN 0 ELSE Ord(Head(s)) + OrdSum(Tail(s))

-----------------------------------------------------------------------------
(* The memoized distance functions *)

\* known = {',': 0}
Known0 == (<< "," >> :> 0)

\* n = str1 + ',' + str2
Key(str1, str2) == str1 \o << "," >> \o str2

\* a faulty empty-argument branch that counts the first argument only
EmptyCaseFirstOnly(str1, str2) == Len(str1)

\* the branch for one empty argument: res = len(str1) + len(str2)
EmptyCase(str1, str2) == Len(str1) + Len(str2)

\* known[n] = res; return res
Store(k, n, res) == [res |-> res, known |-> (n :> res) @@ k]

\* levenshtein_distance(str1, str2) run on memo table k: the value returned
\* and the memo table left behind.
RECURSIVE levenshtein_distance(_, _, _)
levenshtein_distance(k, str1, str2) ==
  LET n == Key(str1, str2) IN
  IF n \in DOMAIN k THEN [res |-> k[n], known |-> k]
  ELSE IF str1 = str2 THEN Store(k, n, 0)
  ELSE IF Len(str1) = 0 \/ Len(str2) = 0
    THEN Store(k, n, EmptyCase(str1, str2))
  ELSE LET r == levenshtein_distance(k, Tail(str1), Tail(str2)) IN
       IF Head(str1) = Head(str2)
         THEN Store(r.known, n, r.res)
         ELSE Store(r.known, n, 1 + r.res)

\* modified_levenshtein_distance(str1, str2) run on memo table k; the branch
\* for an empty argument returns without storing.
modified_levenshtein_distance(k, str1, str2) ==
  LET n == Key(str1, str2) IN
  IF n \in DOMAIN k THEN [res |-> k[n], known |-> k]
  ELSE IF str1 = str2 THEN Store(k, n, 0)
  ELSE IF Len(str1) = 0 \/ Len(str2) = 0
    THEN [res |-> OrdSum(str1) + OrdSum(str2), known |-> k]
  ELSE LET r == levenshtein_distance(k, Tail(str1), Tail(str2)) IN
       IF Head(str1) = Head(str2)
         THEN Store(r.known, n, r.res)
         ELSE Store(r.known, n, Abs(Ord(Head(str1)) - Ord(Head(str2))) + r.res)

\* the arguments of the distance calls the model makes
DistStrings == StringsUpTo(SampleChars, MaxStr)

\* the greatest recursion depth of a distance call on (a, b)
Weight(a, b) == Len(a) + Len(b) + 1

NoCall == [op |-> "none", err |-> "none"]

InitCommon ==
  /\ known = Known0
  /\ last = NoCall
  /\ work = 0
  /\ pc = "idle"
  /\ gen = 0
  /\ idx = 0
  /\ offspring = <<>>

InitDist ==
  /\ InitCommon
  /\ goal = <<>>
  /\ pop = <<>>

CallLev(a, b) ==
  /\ work + Weight(a, b) <= MaxWork
  /\ LET r == levenshtein_distance(known, a, b) IN
       /\ known' = r.known
       /\ last' = [op |-> "levenshtein_distance", a |-> a, b |-> b,
                   res |-> r.res, err |-> "none"]
  /\ work' = work + Weight(a, b)
  /\ UNCHANGED <<pop, goal, pc, gen, idx, offspring>>

CallModLev(a, b) ==
  /\ work + Weight(a, b) <= MaxWork
  /\ LET r == modified_levenshtein_distance(known, a, b) IN
       /\ known' = r.known
       /\ last' = [op |-> "modified_levenshtein_distance", a |-> a, b |-> b,
                   res |-> r.res, err |-> "none"]
  /\ work' = work + Weight(a, b)
  /\ UNCHANGED <<pop, goal, pc, gen, idx, offspring>>

NextLev == \E a \in DistStrings, b \in DistStrings : CallLev(a, b)

NextDist ==
  \/ \E a \in DistStrings, b \in DistStrings : CallLev(a, b)
  \/ \E a \in DistStrings, b \in DistStrings : CallModLev(a, b)

\* calls to levenshtein_distance only
SpecLev == InitDist /\ [][NextLev]_vars

\* calls to both distance functions, which share the memo table
SpecDist == InitDist /\ [][NextDist]_vars

-----------------------------------------------------------------------------
(* Reference values for the distance claims *)

\* the value levenshtein_distance returns on a fresh memo table
FreshLev(a, b) == levenshtein_distance(Known0, a, b).res

\* the classic edit distance: insertions, deletions, substitutions of cost 1
RECURSIVE EditDistance(_, _)
EditDistance(a, b) ==
  IF Len(a) = 0 THEN Len(b)
  ELSE IF Len(b) = 0 THEN Len(a)
  ELSE LET sub == EditDistance(Tail(a), Tail(b))
                    + (IF Head(a) = Head(b) THEN 0 ELSE 1)
           del == EditDistance(Tail(a), b) + 1
           ins == EditDistance(a, Tail(b)) + 1
       IN Min(sub, Min(del, ins))

\* C1: every call levenshtein_distance(a, b) returns the classic edit
\* distance of a and b (minimum number of unit-cost insertions, deletions
\* and substitutions).
C1_ReturnsEditDistance ==
  last.op = "levenshtein_distance" => last.res = EditDistance(last.a, last.b)

\* C2: levenshtein_distance is a pure function of (a, b): after any sequence
\* of earlier calls to either distance function, the value a call on (a, b)
\* returns is the value it returns on a fresh memo table.
C2_PureUnderSharedMemo ==
  last.op = "levenshtein_distance" => last.res = FreshLev(last.a, last.b)

\* C3: symmetry: in every memo table reachable by calls to
\* levenshtein_distance, levenshtein_distance(a, b) == levenshtein_distance(b, a):
\* the value a call on (a, b) returned is the value the call on (b, a) made
\* next, on the memo table the first call left, returns.
C3_Symmetric ==
  last.op = "levenshtein_distance" =>
    last.res = levenshtein_distance(known, last.b, last.a).res

\* a memo table that holds (a, b) but not (b, a), for strings of different
\* lengths with different first symbols: one side of the comparison is read
\* from the table, the other is computed
C3_Witness ==
  \E a \in DistStrings, b \in DistStrings :
    /\ Len(a) # Len(b) /\ Len(a) > 0 /\ Len(b) > 0 /\ Head(a) # Head(b)
    /\ Key(a, b) \in DOMAIN known
    /\ Key(b, a) \notin DOMAIN known
    /\ last.op = "levenshtein_distance" /\ last.a = a /\ last.b = b

-----------------------------------------------------------------------------
(* Python lists and the random module *)

\* list(string): the items are the one-character strings of the string
ListOf(s) == [k \in 1..Len(s) |-> << s[k] >>]

\* "".join(items)
RECURSIVE Join(_)
Join(items) == IF items = <<>> THEN <<>> ELSE Head(items) \o Join(Tail(items))

\* seq[i], for a Python index i in range: a negative index counts from the end
PyItem(seq, i) == IF i >= 0 THEN seq[i + 1] ELSE seq[Len(seq) + i + 1]

\* whether seq[i] is in range (otherwise Python raises IndexError)
InRange(seq, i) == 0 - Len(seq) <= i /\ i < Len(seq)

\* seq[lo:hi] for 0 <= lo <= hi <= len(seq)
PySlice(seq, lo, hi) == SubSeq(seq, lo + 1, hi)

\* del seq[i] for 0 <= i < len(seq)
PyDel(seq, i) == SubSeq(seq, 1, i) \o SubSeq(seq, i + 2, Len(seq))

\* seq.insert(i, x) for i >= 0: an index past the end appends
PyInsert(seq, i, x) ==
  LET j == Min(i, Len(seq)) IN SubSeq(seq, 1, j) \o << x >> \o SubSeq(seq, j + 1, Len(seq))

\* the outcomes of random.randint(a, b); none when a > b (ValueError)
randint(a, b) == a..b

\* sampled outcomes of random.random(), in hundredths: below and at the
\* default rate 0.05, and near 1
RandomDraws == {0, 5, 99}

\* a faulty test, random.random() <= prob
FiresAtOrBelow(prob) == {r <= prob : r \in RandomDraws}

\* the outcomes of the test random.random() < prob (prob in hundredths)
Fires(prob) == {r < prob : r \in RandomDraws}

\* a faulty index draw that leaves out the "- 1"
AlphabetIndexDrawsUnshifted == randint(0, Len(VALID_CHARS))

\* the index random.randint(0, len(VALID_CHARS)) - 1
AlphabetIndexDraws == {r - 1 : r \in randint(0, Len(VALID_CHARS))}

\* the index draws the model follows: those that select a sampled character
\* or fall outside VALID_CHARS
SampledIndexDraws ==
  {ix \in AlphabetIndexDraws :
     InRange(VALID_CHARS, ix) => PyItem(VALID_CHARS, ix) \in SampleChars}

\* the sampled outcomes of random.choice(VALID_CHARS)
ChoiceDraws == {<< VALID_CHARS[k] >> : k \in {k \in 1..Len(VALID_CHARS) : VALID_CHARS[k] \in SampleChars}}

-----------------------------------------------------------------------------
(* Message *)

\* the starting_string argument: None, or a string
None == [given |-> FALSE, s |-> <<>>]
Given(s) == [given |-> TRUE, s |-> s]

\* truth value of starting_string: None and the empty string are false
Truthy(arg) == arg.given /\ Len(arg.s) > 0

\* Message.__init__: the item lists a new Message may hold
Message(starting_string, min_length, max_length) ==
  IF Truthy(starting_string)
    THEN {ListOf(starting_string.s)}
    ELSE UNION {[1..n -> ChoiceDraws] : n \in randint(min_length, max_length)}

\* self.fitness = FitnessMinimizeSingle(): no values yet
NewIndividual(items) == [text |-> items, fitness |-> <<>>]

\* Message.get_text
get_text(message) == Join(message.text)

-----------------------------------------------------------------------------
(* mutate_text *)

Ok(text) == [text |-> text, err |-> "none"]
Raise(text, e) == [text |-> text, err |-> e]

\* VALID_CHARS[ix] as an item, inserted or substituted at loc
InsertDrawn(text, loc, ix) ==
  IF InRange(VALID_CHARS, ix)
    THEN Ok(PyInsert(text, loc, << PyItem(VALID_CHARS, ix) >>))
    ELSE Raise(text, "IndexError")

\* the insertion branch
Insertion(text) ==
  IF randint(0, Len(text) - 1) = {}
    THEN {Raise(text, "ValueError")}
    ELSE {InsertDrawn(text, loc, ix) :
            loc \in randint(0, Len(text) - 1), ix \in SampledIndexDraws}

\* the deletion branch
Deletion(text) ==
  IF randint(0, Len(text) - 1) = {}
    THEN {Raise(text, "ValueError")}
    ELSE {Ok(PyDel(text, loc)) : loc \in randint(0, Len(text) - 1)}

\* del message[sub_loc]; message.insert(sub_loc, to_sub)
SubstituteDrawn(text, loc, ix) ==
  IF InRange(VALID_CHARS, ix)
    THEN Ok(PyInsert(PyDel(text, loc), loc, << PyItem(VALID_CHARS, ix) >>))
    ELSE Raise(text, "IndexError")

\* the substitution branch
Substitution(text) ==
  IF randint(0, Len(text) - 1) = {}
    THEN {Raise(text, "ValueError")}
    ELSE {SubstituteDrawn(text, loc, ix) :
            loc \in randint(0, Len(text) - 1), ix \in SampledIndexDraws}

\* one of the three "if random.random() < prob" statements, applied to the
\* outcomes so far; an exception raised earlier ends the call
InsStage(outs, prob) ==
  UNION {IF o.err # "none" THEN {o}
         ELSE UNION {IF f THEN Insertion(o.text) ELSE {o} : f \in Fires(prob)}
         : o \in outs}

DelStage(outs, prob) ==
  UNION {IF o.err # "none" THEN {o}
         ELSE UNION {IF f THEN Deletion(o.text) ELSE {o} : f \in Fires(prob)}
         : o \in outs}

SubStage(outs, prob) ==
  UNION {IF o.err # "none" THEN {o}
         ELSE UNION {IF f THEN Substitution(o.text) ELSE {o} : f \in Fires(prob)}
         : o \in outs}

\* mutate_text(message, prob_ins, prob_del, prob_sub): the item lists the
\* message may hold when the call ends, and the exception it ends with
mutate_text(text, prob_ins, prob_del, prob_sub) ==
  SubStage(DelStage(InsStage({Ok(text)}, prob_ins), prob_del), prob_sub)

-----------------------------------------------------------------------------
(* crossover *)

\* a faulty loop body that puts the list's own item back
SwapStepOwnItem(str, temp, i, point1) ==
  PyInsert(PyDel(str, i), i, PyItem(str, i))

\* del str[i]; str.insert(i, temp[i - point1])
SwapStep(str, temp, i, point1) ==
  PyInsert(PyDel(str, i), i, PyItem(temp, i - point1))

\* for i in range(point1, point2): the two lists after the loop
RECURSIVE SwapLoop(_, _, _, _, _, _, _)
SwapLoop(str1, str2, temp1, temp2, point1, point2, i) ==
  IF i >= point2 THEN << str1, str2 >>
  ELSE SwapLoop(SwapStep(str1, temp2, i, point1),
                SwapStep(str2, temp1, i, point1),
                temp1, temp2, point1, point2, i + 1)

\* the shorter of the two lengths
Shorter(str1, str2) == IF Len(str1) < Len(str2) THEN Len(str1) ELSE Len(str2)

\* the body of crossover once point_a and point_b are drawn
CrossAt(str1, str2, point_a, point_b) ==
  LET point1 == IF point_a < point_b THEN point_a ELSE point_b
      point2 == IF point_a < point_b THEN point_b ELSE point_a
      temp1 == PySlice(str1, point1, point2)
      temp2 == PySlice(str2, point1, point2)
      r == SwapLoop(str1, str2, temp1, temp2, point1, point2, point1)
  IN [str1 |-> r[1], str2 |-> r[2], point1 |-> point1, point2 |-> point2,
      err |-> "none"]

\* crossover(str1, str2): the outcomes over the drawn points
crossover(str1, str2) ==
  LET length == Shorter(str1, str2) IN
  IF randint(0, length - 1) = {}
    THEN {[str1 |-> str1, str2 |-> str2, point1 |-> 0, point2 |-> 0,
           err |-> "ValueError"]}
    ELSE {CrossAt(str1, str2, point_a, point_b) :
            point_a \in randint(0, length - 1), point_b \in randint(0, length - 1)}

-----------------------------------------------------------------------------
(* The operators applied to a pair of individuals *)

\* the min_length and max_length arguments of the model's Message calls
MessageLengths == << 1, MaxLen >>

\* the starting_string arguments of the model's Message calls
MessageArgs == {None} \cup {Given(s) : s \in StringsUpTo(SampleChars, MaxLen)}

\* the (prob_ins, prob_del, prob_sub) arguments of the model's mutate_text
\* calls, in hundredths: never, the defaults, always
ProbTriples == {<< 0, 0, 0 >>, << 5, 5, 5 >>, << 100, 100, 100 >>}

InitOps ==
  /\ InitCommon
  /\ goal = <<>>
  /\ pop \in [1..2 -> {NewIndividual(t) :
                         t \in Message(None, MessageLengths[1], MessageLengths[2])}]

\* pop[i] = Message(starting_string, min_length, max_length)
NewMessage(i, arg) ==
  /\ \E t \in Message(arg, MessageLengths[1], MessageLengths[2]) :
       pop' = [pop EXCEPT ![i] = NewIndividual(t)]
  /\ last' = [op |-> "Message", i |-> i, starting_string |-> arg, err |-> "none"]
  /\ UNCHANGED <<known, work, goal, pc, gen, idx, offspring>>

\* mutate_text(pop[i], prob_ins, prob_del, prob_sub); the list is changed in
\* place, so what was done before an exception stays done
MutateText(i, probs) ==
  /\ \E o \in mutate_text(pop[i].text, probs[1], probs[2], probs[3]) :
       /\ Len(o.text) <= MaxLen
       /\ pop' = [pop EXCEPT ![i].text = o.text]
       /\ last' = [op |-> "mutate_text", i |-> i, probs |-> probs, err |-> o.err]
  /\ UNCHANGED <<known, work, goal, pc, gen, idx, offspring>>

\* crossover(pop[i], pop[j]) on two distinct individuals
Crossover(i, j) ==
  /\ i # j
  /\ \E o \in crossover(pop[i].text, pop[j].text) :
       /\ pop' = [pop EXCEPT ![i].text = o.str1, ![j].text = o.str2]
       /\ last' = [op |-> "crossover", i |-> i, j |-> j, point1 |-> o.point1,
                   point2 |-> o.point2, err |-> o.err]
  /\ UNCHANGED <<known, work, goal, pc, gen, idx, offspring>>

NextOps ==
  \/ \E i \in DOMAIN pop, arg \in MessageArgs : NewMessage(i, arg)
  \/ \E i \in DOMAIN pop, probs \in ProbTriples : MutateText(i, probs)
  \/ \E i \in DOMAIN pop, j \in DOMAIN pop : Crossover(i, j)

SpecOps == InitOps /\ [][NextOps]_vars

\* the items a Message over the alphabet may hold
ValidItems == {<< VALID_CHARS[k] >> : k \in 1..Len(VALID_CHARS)}

\* C4: Message(starting_string=s).get_text() == s for every string s over
\* the alphabet, the empty string included.
C4_RoundTrip ==
  (last.op = "Message" /\ last.starting_string.given) =>
    get_text(pop[last.i]) = last.starting_string.s

\* C5: mutate_text returns normally for every individual and every outcome
\* of the random draws; a mutation that fires on an empty sequence is
\* skipped.
C5_MutateNeverRaises ==
  last.op = "mutate_text" => last.err = "none"

\* C6: when the shorter individual has length below 2, crossover returns
\* normally and leaves both sequences unchanged.
C6_ShortCrossoverNoOp ==
  [][(last'.op = "crossover"
        /\ Shorter(pop[last'.i].text, pop[last'.j].text) < 2)
       => (last'.err = "none" /\ pop' = pop)]_vars

\* C7: every item of every individual is a symbol of VALID_CHARS, and the
\* index drawn by insertion and substitution is a valid index into it (no
\* call ends with IndexError).
C7_AlphabetInvariant ==
  /\ \A i \in DOMAIN pop : \A k \in 1..Len(pop[i].text) :
       pop[i].text[k] \in ValidItems
  /\ last.err # "IndexError"
  /\ \A ix \in AlphabetIndexDraws : InRange(VALID_CHARS, ix)

\* a mutate_text call in which insertion and substitution both fired and
\* which returned
C7_Witness ==
  /\ last.op = "mutate_text" /\ last.probs = << 100, 100, 100 >>
  /\ last.err = "none"
  /\ Len(pop[last.i].text) >= 2

\* C10: crossover with cut points point1 <= point2 on individuals whose
\* shorter length is at least 2 exchanges exactly the items at the indices
\* point1 <= k < point2 and leaves lengths and all other items unchanged.
C10_SegmentSwap ==
  [][(last'.op = "crossover"
        /\ Shorter(pop[last'.i].text, pop[last'.j].text) >= 2)
       => LET i == last'.i
              j == last'.j
              point1 == last'.point1
              point2 == last'.point2
          IN /\ last'.err = "none"
             /\ point1 <= point2
             /\ Len(pop'[i].text) = Len(pop[i].text)
             /\ Len(pop'[j].text) = Len(pop[j].text)
             /\ \A k \in 0..(Len(pop[i].text) - 1) :
                  PyItem(pop'[i].text, k) =
                    IF point1 <= k /\ k < point2
                      THEN PyItem(pop[j].text, k) ELSE PyItem(pop[i].text, k)
             /\ \A k \in 0..(Len(pop[j].text) - 1) :
                  PyItem(pop'[j].text, k) =
                    IF point1 <= k /\ k < point2
                      THEN PyItem(pop[i].text, k) ELSE PyItem(pop[j].text, k)]_vars

\* a crossover that exchanged a non-empty segment holding different items
\* between individuals of different lengths
C10_Witness ==
  /\ last.op = "crossover" /\ last.err = "none"
  /\ last.point1 < last.point2
  /\ Len(pop[last.i].text) # Len(pop[last.j].text)
  /\ PyItem(pop[last.i].text, last.point1) # PyItem(pop[last.j].text, last.point1)

-----------------------------------------------------------------------------
(* Fitness evaluation of one individual, with mutation *)

\* a faulty evaluation that calls the weighted distance
evaluate_text_weighted(k, message, goal_text) ==
  LET r == modified_levenshtein_distance(k, get_text(message), goal_text)
  IN [res |-> << r.res >>, known |-> r.known]

\* evaluate_text(message, goal_text) run on memo table k: the tuple
\* returned and the memo table left behind
evaluate_text(k, message, goal_text) ==
  LET r == levenshtein_distance(k, get_text(message), goal_text)
  IN [res |-> << r.res >>, known |-> r.known]

\* the goal texts of the model's runs
GoalSample == {<< VALID_CHARS[1], VALID_CHARS[Len(VALID_CHARS)] >>}

\* ind.fitness.values = toolbox.evaluate(ind)
Evaluate(i) ==
  /\ work + Weight(get_text(pop[i]), goal) <= MaxWork
  /\ LET r == evaluate_text(known, pop[i], goal) IN
       /\ pop' = [pop EXCEPT ![i].fitness = r.res]
       /\ known' = r.known
  /\ work' = work + Weight(get_text(pop[i]), goal)
  /\ last' = [op |-> "evaluate_text", i |-> i, err |-> "none"]
  /\ UNCHANGED <<goal, pc, gen, idx, offspring>>

InitMut ==
  /\ InitCommon
  /\ goal \in GoalSample
  /\ pop \in [1..1 -> {NewIndividual(t) :
                         t \in Message(None, MessageLengths[1], MessageLengths[2])}]

NextMut ==
  \/ \E i \in DOMAIN pop : Evaluate(i)
  \/ \E i \in DOMAIN pop, probs \in ProbTriples : MutateText(i, probs)

\* one individual, evaluated and mutated in any order
SpecMut == InitMut /\ [][NextMut]_vars

\* C8: mutate_text with prob_ins = prob_del = prob_sub = 0 returns and
\* leaves the individual's sequence and its cached fitness exactly as they
\* were, whatever the random draws.
C8_ZeroRatesNoChange ==
  [][(last'.op = "mutate_text" /\ last'.probs = << 0, 0, 0 >>)
       => (pop' = pop /\ last'.err = "none")]_vars

\* a mutate_text call with all rates 0 on an individual whose fitness is set
C8_Witness ==
  /\ last.op = "mutate_text" /\ last.probs = << 0, 0, 0 >>
  /\ pop[last.i].fitness # <<>>
  /\ Len(pop[last.i].text) > 0

-----------------------------------------------------------------------------
(* evolve_string: the generational loop run by algorithms.eaSimple *)

\* tournsize of toolbox.select
TOURNSIZE == 3
\* cxpb and mutpb of the eaSimple call, and the default rates of
\* mutate_text, in hundredths
CXPB == 50
MUTPB == 20
PROB_DEFAULT == 5

\* the defaults of Message.__init__, with which toolbox.individual is called
MIN_LENGTH == 4
MAX_LENGTH == 30

\* the individuals (as indices) of the loop model's population; the
\* variation step pairs them as (1, 2), (3, 4), ...
PopIndices == 1..MaxPop

\* toolbox.individual(): the random Messages the loop starts from, of
\* min_length up to MaxInitLen symbols
LoopIndividuals ==
  {NewIndividual(t) :
     t \in Message(None, MIN_LENGTH, Min(MAX_LENGTH, MaxInitLen))}

\* whether ind.fitness.valid
Valid(ind) == ind.fitness # <<>>

\* evaluate every individual of inds (a sequence) that has no valid
\* fitness, in order, threading the memo table
RECURSIVE EvaluateInvalid(_, _, _, _)
EvaluateInvalid(k, inds, goal_text, i) ==
  IF i > Len(inds) THEN [inds |-> inds, known |-> k]
  ELSE IF Valid(inds[i]) THEN EvaluateInvalid(k, inds, goal_text, i + 1)
  ELSE LET r == evaluate_text(k, inds[i], goal_text)
       IN EvaluateInvalid(r.known, [inds EXCEPT ![i].fitness = r.res],
                          goal_text, i + 1)

\* the winner of one tournament: the first aspirant of least fitness value
Winner(aspirants) ==
  LET best == CHOOSE n \in 1..Len(aspirants) :
                /\ \A m \in 1..Len(aspirants) :
                     pop[aspirants[n]].fitness[1] <= pop[aspirants[m]].fitness[1]
                /\ \A m \in 1..(n - 1) :
                     pop[aspirants[m]].fitness[1] > pop[aspirants[n]].fitness[1]
  IN aspirants[best]

\* the individuals tools.selTournament may return for one slot
Winners == {Winner(asp) : asp \in [1..TOURNSIZE -> DOMAIN pop]}

\* The record of the loop's last step also keeps, for the generation under
\* way: carried, the fitness each offspring had when it was selected;
\* crossed and mutated, the offspring whose text crossover, resp. mutation,
\* has changed.
Step(op, err, carried, crossed, mutated) ==
  [op |-> op, err |-> err, carried |-> carried, crossed |-> crossed,
   mutated |-> mutated]

\* the same record after a step that varies nothing
Kept(op) == Step(op, "none", last.carried, last.crossed, last.mutated)

InitEA ==
  /\ known = Known0
  /\ last = Step("none", "none", <<>>, {}, {})
  /\ work = 0
  /\ gen = 0
  /\ idx = 0
  /\ offspring = <<>>
  /\ goal \in GoalSample
  /\ pop \in [PopIndices -> LoopIndividuals]
  /\ pc = "start"

\* eaSimple, before the loop: evaluate the individuals with an invalid fitness
EvaluateInitial ==
  /\ pc = "start"
  /\ LET r == EvaluateInvalid(known, pop, goal, 1) IN
       /\ pop' = r.inds
       /\ known' = r.known
  /\ pc' = "select"
  /\ last' = Kept("evaluate")
  /\ UNCHANGED <<work, goal, gen, idx, offspring>>

\* offspring = toolbox.select(population, len(population)), cloned by varAnd;
\* selection reads the fitness of every aspirant
Select ==
  /\ pc = "select"
  /\ gen < MaxGen
  /\ \A i \in DOMAIN pop : Valid(pop[i])
  /\ \E chosen \in [DOMAIN pop -> Winners] :
       /\ offspring' = [i \in DOMAIN pop |-> pop[chosen[i]]]
       /\ last' = Step("select", "none",
                       [i \in DOMAIN pop |-> pop[chosen[i]].fitness], {}, {})
  /\ pc' = "mate"
  /\ idx' = 1
  /\ UNCHANGED <<known, pop, work, goal, gen>>

\* the loop ends after ngen generations
Finish ==
  /\ pc = "select"
  /\ gen = MaxGen
  /\ pc' = "done"
  /\ last' = Kept("return")
  /\ UNCHANGED <<known, pop, work, goal, gen, idx, offspring>>

\* varAnd, first loop, for the pair (idx, idx + 1): with probability cxpb
\* mate the two and delete both fitness values
Mate ==
  /\ pc = "mate"
  /\ idx + 1 <= Len(offspring)
  /\ \E f \in Fires(CXPB) :
       /\ f => work + 1 <= MaxVaried
       /\ work' = IF f THEN work + 1 ELSE work
       /\ IF f
            THEN \E o \in crossover(offspring[idx].text, offspring[idx + 1].text) :
                   IF o.err = "none"
                     THEN /\ offspring' = [offspring EXCEPT
                                             ![idx] = NewIndividual(o.str1),
                                             ![idx + 1] = NewIndividual(o.str2)]
                          /\ idx' = idx + 2
                          /\ pc' = "mate"
                          /\ last' = Step("crossover", "none", last.carried,
                               last.crossed
                                 \cup {i \in {idx} : o.str1 # offspring[idx].text}
                                 \cup {i \in {idx + 1} : o.str2 # offspring[idx + 1].text},
                               last.mutated)
                     ELSE /\ pc' = "raised"
                          /\ last' = Step("crossover", o.err, last.carried,
                                          last.crossed, last.mutated)
                          /\ UNCHANGED <<offspring, idx>>
            ELSE /\ idx' = idx + 2
                 /\ pc' = "mate"
                 /\ last' = Kept("no crossover")
                 /\ UNCHANGED offspring
  /\ UNCHANGED <<known, pop, goal, gen>>

\* the first loop of varAnd is over
MateDone ==
  /\ pc = "mate"
  /\ idx + 1 > Len(offspring)
  /\ pc' = "mutate"
  /\ idx' = 1
  /\ last' = Kept("mated")
  /\ UNCHANGED <<known, pop, work, goal, gen, offspring>>

\* varAnd, second loop, for offspring idx: with probability mutpb mutate it
\* and delete its fitness values
Mutate ==
  /\ pc = "mutate"
  /\ idx <= Len(offspring)
  /\ \E f \in Fires(MUTPB) :
       /\ f => work + 2 <= MaxVaried
       /\ work' = IF f THEN work + 2 ELSE work
       /\ IF f
            THEN \E o \in mutate_text(offspring[idx].text,
                                      PROB_DEFAULT, PROB_DEFAULT, PROB_DEFAULT) :
                   IF o.err = "none"
                     THEN /\ offspring' = [offspring EXCEPT ![idx] = NewIndividual(o.text)]
                          /\ idx' = idx + 1
                          /\ pc' = "mutate"
                          /\ last' = Step("mutate_text", "none", last.carried,
                               last.crossed,
                               last.mutated
                                 \cup {i \in {idx} : o.text # offspring[idx].text})
                     ELSE /\ offspring' = [offspring EXCEPT ![idx].text = o.text]
                          /\ pc' = "raised"
                          /\ last' = Step("mutate_text", o.err, last.carried,
                                          last.crossed, last.mutated)
                          /\ UNCHANGED idx
            ELSE /\ idx' = idx + 1
                 /\ pc' = "mutate"
                 /\ last' = Kept("no mutation")
                 /\ UNCHANGED offspring
  /\ UNCHANGED <<known, pop, goal, gen>>

\* eaSimple, end of the loop body: evaluate the offspring with an invalid
\* fitness, then population[:] = offspring
EvaluateReplace ==
  /\ pc = "mutate"
  /\ idx > Len(offspring)
  /\ LET r == EvaluateInvalid(known, offspring, goal, 1) IN
       /\ pop' = r.inds
       /\ known' = r.known
  /\ gen' = gen + 1
  /\ pc' = "select"
  /\ last' = Kept("evaluate")
  /\ idx' = 0
  /\ offspring' = <<>>
  /\ UNCHANGED <<work, goal>>

NextEA ==
  \/ EvaluateInitial
  \/ Select
  \/ Finish
  \/ Mate
  \/ MateDone
  \/ Mutate
  \/ EvaluateReplace

SpecEA == InitEA /\ [][NextEA]_vars

\* C9: whenever selection is about to read the population, every
\* individual's fitness is set and equals levenshtein_distance of its current
\* text and the goal: an individual whose sequence crossover or mutation
\* changed has been evaluated again.
C9_FitnessFreshAtSelection ==
  pc = "select" =>
    \A i \in DOMAIN pop :
      /\ Valid(pop[i])
      /\ pop[i].fitness = << FreshLev(get_text(pop[i]), goal) >>

\* selection of a later generation is about to read the population, in
\* which crossover has changed the text of an individual and mutation the
\* text of an individual, each of which now has a fitness different from the
\* one it carried when it was selected
C9_Witness ==
  /\ pc = "select" /\ gen >= 1 /\ gen < MaxGen
  /\ last.op = "evaluate"
  /\ \E i \in last.crossed : pop[i].fitness # last.carried[i]
  /\ \E i \in last.mutated : pop[i].fitness # last.carried[i]

====
